---- MODULE Spec2Model ----
(***************************************************************************)
(* Model of the native passkey (WebAuthn) bridge of src-tauri/src/         *)
(* webauthn.rs: the three Tauri commands is_webauthn_available,            *)
(* authenticate_passkey and register_passkey, the helpers they call, and   *)
(* the asynchronous invocations of them by the web front-end.              *)
(*                                                                         *)
(* Rust strings that the code builds or inspects are sequences of          *)
(* one-character strings; Option<T> is a sequence of length 0 (None) or 1  *)
(* (Some).  Fixed messages that are only compared are TLA+ strings.        *)
(***************************************************************************)
EXTENDS Integers, Sequences, FiniteSets, TLC

(* ---------------- bounds of the model ---------------- *)

\* number of command invocations the front-end makes
MaxCalls == 2
\* number of distinct values the random source can deliver
NumChallenges == 2
\* largest value (Unix seconds) the system clock takes
MaxClock == 120

(* ---------------- program constants ---------------- *)

\* let mut array = [0u8; 32]
ChallengeBytes == 32
\* tokio::time::sleep(Duration::from_millis(1500))
AuthDelayMs == 1500
\* tokio::time::sleep(Duration::from_millis(2000))
RegisterDelayMs == 2000

(* ---------------- Option<T> ---------------- *)

None == <<>>
Some(x) == <<x>>
IsSome(o) == Len(o) = 1
Unwrap(o) == o[1]

(* ---------------- input domains ---------------- *)

CallIds == 1..MaxCalls
Platforms == {"macos", "ios", "other"}
\* the system clock in seconds relative to the Unix epoch: a clock set
\* before the epoch and one after it
ClockVals == {-1, MaxClock}

SiteIds == { <<"s", "1">>, <<"d", "e", "v">> }
SiteNames == { <<"M", "y">> }
DisplayNames == { None, Some(<<"A", "l">>) }

\* a SiteAuthConfig the caller holds that no register call produced
ForeignConfig ==
    [public_key |-> <<"p", "k">>, credential_id |-> <<"x">>,
     requires_auth |-> FALSE, user_display_name |-> None,
     registered_at |-> <<"n", "o", "w">>]

(* ---------------- string helpers ---------------- *)

Digits == <<"0", "1", "2", "3", "4", "5", "6", "7", "8", "9">>

\* u64::to_string
RECURSIVE to_string(_)
to_string(n) ==
    IF n < 10 THEN <<Digits[n + 1]>>
    ELSE to_string(n \div 10) \o <<Digits[(n % 10) + 1]>>

\* the standard URL-safe base64 alphabet
UrlSafeAlphabet ==
    <<"A","B","C","D","E","F","G","H","I","J","K","L","M","N","O","P",
      "Q","R","S","T","U","V","W","X","Y","Z","a","b","c","d","e","f",
      "g","h","i","j","k","l","m","n","o","p","q","r","s","t","u","v",
      "w","x","y","z","0","1","2","3","4","5","6","7","8","9","-","_">>

B64(n) == UrlSafeAlphabet[n + 1]

\* URL_SAFE_NO_PAD.encode: three bytes give four characters, a trailing
\* group of one or two bytes gives two or three and no padding
RECURSIVE URL_SAFE_NO_PAD_encode(_)
URL_SAFE_NO_PAD_encode(b) ==
    IF Len(b) = 0 THEN <<>>
    ELSE IF Len(b) = 1 THEN
        <<B64(b[1] \div 4), B64((b[1] % 4) * 16)>>
    ELSE IF Len(b) = 2 THEN
        LET n == b[1] * 256 + b[2]
        IN  <<B64(n \div 1024), B64((n \div 16) % 64), B64((n % 16) * 4)>>
    ELSE
        LET n == b[1] * 65536 + b[2] * 256 + b[3]
        IN  <<B64(n \div 262144), B64((n \div 4096) % 64),
              B64((n \div 64) % 64), B64(n % 64)>>
            \o URL_SAFE_NO_PAD_encode(SubSeq(b, 4, Len(b)))

\* rand::thread_rng().fill_bytes(&mut array): the arrays the random source
\* can deliver, one per k
RandomArray(k) == [i \in 1..ChallengeBytes |-> (k * 85 + i * (k % 2)) % 256]
Entropy == { RandomArray(k) : k \in 0..(NumChallenges - 1) }

\* generate_challenge, given the bytes the random source delivered
generate_challenge(array) == URL_SAFE_NO_PAD_encode(array)

(* ---------------- pure parts of the commands ---------------- *)

\* cfg!(debug_assertions) is the parameter dbg
get_editing_domain_always_localhost(dbg) == "localhost"
get_editing_domain(dbg) ==
    IF dbg THEN "localhost" ELSE "app.sparktype.org"

\* #[cfg(any(target_os = "macos", target_os = "ios"))]
Supported(plat) == plat \in {"macos", "ios"}

is_webauthn_available_macos_only(plat) == plat = "macos"
is_webauthn_available(plat) ==
    IF plat = "macos" THEN TRUE
    ELSE IF plat = "ios" THEN TRUE
    ELSE FALSE


(* ---------------- Result<T, String> ---------------- *)

Ok(v) == [tag |-> "Ok", val |-> v]
Err(e) == [tag |-> "Err", val |-> e]

\* SystemTime::now().duration_since(UNIX_EPOCH): Err when the clock t is
\* before the epoch, else the whole seconds (as_secs)
duration_since_UNIX_EPOCH(t) == IF t >= 0 THEN Ok(t) ELSE Err("SystemTimeError")

(* ---------------- literals of the source ---------------- *)

NotSupportedMsg == "WebAuthn not supported on this platform"
AuthIncompleteMsg ==
    "Native WebAuthn authentication requires ASAuthorizationController integration"
RegisterIncompleteMsg ==
    "Native WebAuthn registration requires ASAuthorizationController integration"

\* "dev_public_key_"
DevPublicKeyPrefix ==
    <<"d","e","v","_","p","u","b","l","i","c","_","k","e","y","_">>
\* "placeholder_public_key_"
PlaceholderPublicKeyPrefix ==
    <<"p","l","a","c","e","h","o","l","d","e","r","_",
      "p","u","b","l","i","c","_","k","e","y","_">>
\* "dev_credential_id_"
DevCredentialIdPrefix ==
    <<"d","e","v","_","c","r","e","d","e","n","t","i","a","l","_","i","d","_">>
\* "placeholder_credential_id_"
PlaceholderCredentialIdPrefix ==
    <<"p","l","a","c","e","h","o","l","d","e","r","_",
      "c","r","e","d","e","n","t","i","a","l","_","i","d","_">>

(* ---------------- the native adapters ---------------- *)

\* variant: the simulated success keeps an error message
authenticate_with_native_webauthn_error_kept(site_id, auth_config, editing_domain, dbg) ==
    IF dbg
    THEN Ok([success |-> TRUE, error |-> Some(AuthIncompleteMsg),
             credential_id |-> Some(auth_config.credential_id)])
    ELSE Ok([success |-> FALSE, error |-> Some(AuthIncompleteMsg),
             credential_id |-> Some(auth_config.credential_id)])

\* variant: the simulated success is not gated on the debug build
authenticate_with_native_webauthn_ungated(site_id, auth_config, editing_domain, dbg) ==
    Ok([success |-> TRUE, error |-> None,
        credential_id |-> Some(auth_config.credential_id)])

\* what authenticate_with_native_webauthn returns; in a debug build the
\* return follows the 1500 ms sleep
authenticate_with_native_webauthn(site_id, auth_config, editing_domain, dbg) ==
    IF dbg
    THEN Ok([success |-> TRUE, error |-> None,
             credential_id |-> Some(auth_config.credential_id)])
    ELSE Ok([success |-> FALSE, error |-> Some(AuthIncompleteMsg),
             credential_id |-> Some(auth_config.credential_id)])

\* variant: the two format! arguments are swapped
placeholder_auth_config_swapped(site_id, user_display_name, challenge, dbg, secs) ==
    [public_key |-> IF dbg THEN DevPublicKeyPrefix \o site_id
                    ELSE PlaceholderPublicKeyPrefix \o site_id,
     credential_id |-> IF dbg THEN DevCredentialIdPrefix \o challenge
                       ELSE PlaceholderCredentialIdPrefix \o challenge,
     requires_auth |-> TRUE,
     user_display_name |-> user_display_name,
     registered_at |-> to_string(secs)]

\* the SiteAuthConfig register_with_native_webauthn builds; secs is the
\* unwrapped duration since the epoch in whole seconds
placeholder_auth_config(site_id, user_display_name, challenge, dbg, secs) ==
    [public_key |-> IF dbg THEN DevPublicKeyPrefix \o challenge
                    ELSE PlaceholderPublicKeyPrefix \o challenge,
     credential_id |-> IF dbg THEN DevCredentialIdPrefix \o site_id
                       ELSE PlaceholderCredentialIdPrefix \o site_id,
     requires_auth |-> TRUE,
     user_display_name |-> user_display_name,
     registered_at |-> to_string(secs)]

\* what register_with_native_webauthn returns once auth_config is built;
\* in a debug build the return follows the 2000 ms sleep
register_with_native_webauthn(auth_config, dbg) ==
    IF dbg
    THEN Ok([success |-> TRUE, auth_config |-> Some(auth_config),
             error |-> None])
    ELSE Ok([success |-> FALSE, auth_config |-> Some(auth_config),
             error |-> Some(RegisterIncompleteMsg)])

\* the match in authenticate_passkey on the adapter's Result
authenticate_passkey_match(r) ==
    IF r.tag = "Ok" THEN Ok(r.val)
    ELSE Ok([success |-> FALSE, error |-> Some(r.val), credential_id |-> None])

\* the match in register_passkey on the adapter's Result
register_passkey_match(r) ==
    IF r.tag = "Ok" THEN Ok(r.val)
    ELSE Ok([success |-> FALSE, auth_config |-> None, error |-> Some(r.val)])

\* variant: the unsupported arm echoes a credential id
authenticate_passkey_unsupported_echo ==
    Ok([success |-> FALSE, error |-> Some(NotSupportedMsg),
        credential_id |-> Some(<<"x">>)])

\* the not(any(macos, ios)) arm of authenticate_passkey
authenticate_passkey_unsupported ==
    Ok([success |-> FALSE, error |-> Some(NotSupportedMsg),
        credential_id |-> None])

\* the not(any(macos, ios)) arm of register_passkey
register_passkey_unsupported ==
    Ok([success |-> FALSE, auth_config |-> None,
        error |-> Some(NotSupportedMsg)])

(* ---------------- state ---------------- *)

VARIABLES
    platform,   \* target_os the binary was built for
    debug,      \* cfg!(debug_assertions) of the build
    now,        \* the system clock, seconds relative to the Unix epoch
    calls       \* the invocations of the commands, by invocation number

vars == <<platform, debug, now, calls>>

\* An invocation.  pc: "idle" not yet invoked, "sleeping" suspended in
\* tokio::time::sleep, "done" resolved, "panicked" unwound by a panic.
\* site_id .. auth_config are the arguments.  challenge and new_config
\* are the locals `challenge` and `auth_config` of the adapter's frame,
\* None when no frame holds them.  outcome is the Result the command
\* resolved with.  editing_domain, issued, clock_read and timer_ms record
\* what the invocation did: the domain it passed to the adapter, the
\* challenges it generated, the clock value it read and the sleep it
\* requested.
IdleCall ==
    [op |-> "none", pc |-> "idle",
     site_id |-> <<>>, site_name |-> <<>>, user_display_name |-> None,
     auth_config |-> None,
     challenge |-> None, new_config |-> None,
     editing_domain |-> None, issued |-> <<>>, clock_read |-> None, timer_ms |-> 0,
     outcome |-> None]

Init ==
    /\ platform \in Platforms
    /\ debug \in BOOLEAN
    /\ now \in ClockVals
    /\ calls = [c \in CallIds |-> IdleCall]

\* invocations are numbered in the order the front-end makes them
Invocable(c) ==
    /\ calls[c].pc = "idle"
    /\ IF c = 1 THEN TRUE ELSE calls[c - 1].pc # "idle"

\* the SiteAuthConfig values the caller can pass: one of its own, or any
\* a register call returned to it
ReturnedConfigs ==
    { Unwrap(Unwrap(calls[d].outcome).val.auth_config) :
        d \in { e \in CallIds : /\ calls[e].op = "register"
                                /\ calls[e].pc = "done"
                                /\ IsSome(Unwrap(calls[e].outcome).val.auth_config) } }

CallerConfigs == {ForeignConfig} \cup ReturnedConfigs

\* every SiteAuthConfig value a caller can come to hold
SiteAuthConfigs ==
    {ForeignConfig} \cup
    { placeholder_auth_config(site_id, user_display_name,
                              generate_challenge(array), dbg, secs) :
        site_id \in SiteIds, user_display_name \in DisplayNames,
        array \in Entropy, dbg \in BOOLEAN, secs \in ClockVals \ {-1} }

(* ---------------- the commands ---------------- *)

\* invoke("is_webauthn_available")
is_webauthn_available_call(c) ==
    /\ Invocable(c)
    /\ calls' = [calls EXCEPT ![c] =
            [@ EXCEPT !.op = "is_available", !.pc = "done",
                      !.outcome = Some(Ok([available |-> is_webauthn_available(platform)]))]]
    /\ UNCHANGED <<platform, debug, now>>

\* invoke("authenticate_passkey", site_id, auth_config), up to its first
\* await or its return
authenticate_passkey(c, site_id, auth_config, array) ==
    /\ Invocable(c)
    /\ auth_config \in CallerConfigs
    /\ LET args == [calls[c] EXCEPT !.op = "authenticate",
                                    !.site_id = site_id,
                                    !.auth_config = Some(auth_config)]
           editing_domain == get_editing_domain(debug)
           challenge == generate_challenge(array)
       IN  IF Supported(platform)
           THEN IF debug
                THEN calls' = [calls EXCEPT ![c] =
                        [args EXCEPT !.pc = "sleeping",
                                     !.editing_domain = Some(editing_domain),
                                     !.challenge = Some(challenge),
                                     !.issued = Append(@, challenge),
                                     !.timer_ms = AuthDelayMs]]
                ELSE calls' = [calls EXCEPT ![c] =
                        [args EXCEPT !.pc = "done",
                                     !.editing_domain = Some(editing_domain),
                                     !.issued = Append(@, challenge),
                                     !.outcome = Some(authenticate_passkey_match(
                                         authenticate_with_native_webauthn(
                                             site_id, auth_config,
                                             editing_domain, debug)))]]
           ELSE calls' = [calls EXCEPT ![c] =
                    [args EXCEPT !.pc = "done",
                                 !.outcome = Some(authenticate_passkey_unsupported)]]
    /\ UNCHANGED <<platform, debug, now>>


\* invoke("register_passkey", site_id, site_name, user_display_name), up
\* to its first await, its return or its panic
register_passkey(c, site_id, site_name, user_display_name, array) ==
    /\ Invocable(c)
    /\ LET args == [calls[c] EXCEPT !.op = "register",
                                    !.site_id = site_id,
                                    !.site_name = site_name,
                                    !.user_display_name = user_display_name]
           editing_domain == get_editing_domain(debug)
           challenge == generate_challenge(array)
           since == duration_since_UNIX_EPOCH(now)
           auth_config == placeholder_auth_config(site_id, user_display_name,
                                                  challenge, debug, since.val)
           entered == [args EXCEPT !.editing_domain = Some(editing_domain),
                                   !.issued = Append(@, challenge),
                                   !.clock_read = Some(now)]
       IN  IF Supported(platform)
           THEN IF since.tag = "Err"
                THEN \* .unwrap() on the Err
                     calls' = [calls EXCEPT ![c] =
                        [entered EXCEPT !.pc = "panicked"]]
                ELSE IF debug
                THEN calls' = [calls EXCEPT ![c] =
                        [entered EXCEPT !.pc = "sleeping",
                                        !.challenge = Some(challenge),
                                        !.new_config = Some(auth_config),
                                        !.timer_ms = RegisterDelayMs]]
                ELSE calls' = [calls EXCEPT ![c] =
                        [entered EXCEPT !.pc = "done",
                                        !.outcome = Some(register_passkey_match(
                                            register_with_native_webauthn(
                                                auth_config, debug)))]]
           ELSE calls' = [calls EXCEPT ![c] =
                    [args EXCEPT !.pc = "done",
                                 !.outcome = Some(register_passkey_unsupported)]]
    /\ UNCHANGED <<platform, debug, now>>

\* variant: the challenge outlives the call that generated it
wake_keeps_challenge(c) ==
    /\ calls[c].pc = "sleeping"
    /\ calls' = [calls EXCEPT ![c] =
            [@ EXCEPT !.pc = "done", !.new_config = None,
                      !.outcome = Some(
                          IF calls[c].op = "authenticate"
                          THEN authenticate_passkey_match(
                                   authenticate_with_native_webauthn(
                                       calls[c].site_id,
                                       Unwrap(calls[c].auth_config),
                                       Unwrap(calls[c].editing_domain), debug))
                          ELSE register_passkey_match(
                                   register_with_native_webauthn(
                                       Unwrap(calls[c].new_config), debug)))]]
    /\ UNCHANGED <<platform, debug, now>>

\* the sleep of invocation c elapses: the adapter returns and the command
\* resolves
wake(c) ==
    /\ calls[c].pc = "sleeping"
    /\ LET outcome ==
            IF calls[c].op = "authenticate"
            THEN authenticate_passkey_match(
                     authenticate_with_native_webauthn(
                         calls[c].site_id, Unwrap(calls[c].auth_config),
                         Unwrap(calls[c].editing_domain), debug))
            ELSE register_passkey_match(
                     register_with_native_webauthn(
                         Unwrap(calls[c].new_config), debug))
       IN  calls' = [calls EXCEPT ![c] =
                [@ EXCEPT !.pc = "done", !.challenge = None,
                          !.new_config = None, !.outcome = Some(outcome)]]
    /\ UNCHANGED <<platform, debug, now>>

\* the system clock changes (time passes, or the clock is set)
set_clock(t) ==
    /\ t # now
    /\ now' = t
    /\ UNCHANGED <<platform, debug, calls>>

Next ==
    \/ \E c \in CallIds : is_webauthn_available_call(c)
    \/ \E c \in CallIds, site_id \in SiteIds, auth_config \in SiteAuthConfigs,
          array \in Entropy :
            authenticate_passkey(c, site_id, auth_config, array)
    \/ \E c \in CallIds, site_id \in SiteIds, site_name \in SiteNames,
          user_display_name \in DisplayNames, array \in Entropy :
            register_passkey(c, site_id, site_name, user_display_name, array)
    \/ \E c \in CallIds : wake(c)
    \/ \E t \in ClockVals : set_clock(t)

Spec == Init /\ [][Next]_vars

\* the tokio timer fires every sleep that was requested
FairSpec == Spec /\ \A c \in CallIds : WF_vars(wake(c))


(* ---------------- vocabulary of the properties ---------------- *)

Returned(c, op) == calls[c].op = op /\ calls[c].pc = "done"
\* the result value invocation c resolved with
Res(c) == Unwrap(calls[c].outcome).val
\* invocation c entered authenticate_/register_with_native_webauthn
ReachedAdapter(c) ==
    /\ platform \in {"macos", "ios"}
    /\ calls[c].op \in {"authenticate", "register"}

\* needle occurs in hay
Contains(hay, needle) ==
    \E i \in 0..(Len(hay) - Len(needle)) :
        SubSeq(hay, i + 1, i + Len(needle)) = needle

IsDecimal(s) ==
    /\ Len(s) >= 1
    /\ \A i \in 1..Len(s) : \E d \in 1..10 : Digits[d] = s[i]
DigitValue(ch) == (CHOOSE d \in 1..10 : Digits[d] = ch) - 1
RECURSIVE ParseDecimal(_)
ParseDecimal(s) ==
    IF Len(s) = 0 THEN 0
    ELSE 10 * ParseDecimal(SubSeq(s, 1, Len(s) - 1)) + DigitValue(s[Len(s)])

(* ---------------- C1 ---------------- *)

\* C1: every result authenticate_passkey or register_passkey returned has
\* error = None when success is true and error # None when success is
\* false, on every platform and in every build mode.
C1_SuccessXorError ==
    \A c \in CallIds :
        Returned(c, "authenticate") \/ Returned(c, "register") =>
            /\ Res(c).success => Res(c).error = None
            /\ ~Res(c).success => Res(c).error # None

\* a successful register and a successful authenticate have both returned
C1_Witness ==
    \E c, d \in CallIds :
        /\ Returned(c, "register") /\ Res(c).success
        /\ Returned(d, "authenticate") /\ Res(d).success

(* ---------------- C2 ---------------- *)

\* C2: on a platform that is neither macOS nor iOS is_webauthn_available
\* returns false and authenticate_passkey / register_passkey return the
\* fixed "not supported" failure without credential data, in the step
\* that invokes them: no challenge is generated and no sleep requested.
C2_UnsupportedPlatform ==
    platform \notin {"macos", "ios"} =>
        \A c \in CallIds :
            /\ calls[c].pc \in {"idle", "done"}
            /\ calls[c].issued = <<>>
            /\ calls[c].timer_ms = 0
            /\ Returned(c, "is_available") =>
                 calls[c].outcome = Some(Ok([available |-> FALSE]))
            /\ Returned(c, "authenticate") =>
                 calls[c].outcome = Some(Ok(
                     [success |-> FALSE,
                      error |-> Some("WebAuthn not supported on this platform"),
                      credential_id |-> None]))
            /\ Returned(c, "register") =>
                 calls[c].outcome = Some(Ok(
                     [success |-> FALSE, auth_config |-> None,
                      error |-> Some("WebAuthn not supported on this platform")]))

\* both commands have returned on an unsupported platform
C2_Witness ==
    /\ platform = "other"
    /\ \E c, d \in CallIds :
        Returned(c, "authenticate") /\ Returned(d, "register")

(* ---------------- C3 ---------------- *)

\* C3: a failed result carries no credential data: a failed
\* authenticate_passkey has credentialId = None and a failed
\* register_passkey has authConfig = None, on every platform and build.
C3_FailureCarriesNoCredential ==
    \A c \in CallIds :
        /\ Returned(c, "authenticate") /\ ~Res(c).success =>
             Res(c).credential_id = None
        /\ Returned(c, "register") /\ ~Res(c).success =>
             Res(c).auth_config = None

(* ---------------- C4 ---------------- *)

\* C4: on macOS/iOS in a development build a register_passkey that
\* returned has success = true and an authConfig whose credentialId
\* contains siteId, whose requiresAuth is true, whose userDisplayName is
\* the argument and whose registeredAt is the decimal text of the clock
\* value read; and an authenticate_passkey given that authConfig that
\* returned has success = true, error = None and the same credentialId.
C4_RegisterThenAuthenticate ==
    platform \in {"macos", "ios"} /\ debug =>
        \A c \in CallIds : Returned(c, "register") =>
            /\ Res(c).success
            /\ IsSome(Res(c).auth_config)
            /\ LET cfg == Unwrap(Res(c).auth_config)
               IN  /\ Contains(cfg.credential_id, calls[c].site_id)
                   /\ cfg.requires_auth
                   /\ cfg.user_display_name = calls[c].user_display_name
                   /\ IsDecimal(cfg.registered_at)
                   /\ Some(ParseDecimal(cfg.registered_at)) = calls[c].clock_read
                   /\ \A d \in CallIds :
                        /\ Returned(d, "authenticate")
                        /\ calls[d].auth_config = Some(cfg)
                        => /\ Res(d).success
                           /\ Res(d).error = None
                           /\ Res(d).credential_id = Some(cfg.credential_id)

\* a register at a clock value of several digits has returned and an
\* authenticate given its authConfig has returned
C4_Witness ==
    /\ platform \in {"macos", "ios"} /\ debug
    /\ \E c, d \in CallIds :
        /\ Returned(c, "register")
        /\ Unwrap(calls[c].clock_read) > 9
        /\ Returned(d, "authenticate")
        /\ calls[d].auth_config = Res(c).auth_config


(* ---------------- C5 ---------------- *)

\* C5: is_webauthn_available returns the same value on every call of a
\* given platform/build, whatever calls came before or are in flight, and
\* that value is false exactly when the platform is neither macOS nor iOS.
C5_AvailabilityByPlatform ==
    \A c \in CallIds : Returned(c, "is_available") =>
        /\ calls[c].outcome[1].tag = "Ok"
        /\ Res(c).available = (platform \in {"macos", "ios"})
        /\ \A d \in CallIds : Returned(d, "is_available") =>
             Res(d).available = Res(c).available

\* is_webauthn_available has returned true while another call sleeps
C5_Witness ==
    \E c, d \in CallIds :
        /\ calls[c].pc = "sleeping"
        /\ Returned(d, "is_available")
        /\ Res(d).available

(* ---------------- C6 ---------------- *)

\* C6: every invocation of the three commands resolves with Ok(result),
\* for every platform, build mode, input and clock value (also a clock
\* before the Unix epoch): none rejects and none ends in a panic.
C6_AlwaysResolvesOk ==
    \A c \in CallIds :
        /\ calls[c].pc # "panicked"
        /\ calls[c].pc = "done" => calls[c].outcome[1].tag = "Ok"

(* ---------------- C7 ---------------- *)

\* C7: concurrent calls are independent and a call suspended on its timer
\* blocks no other call, so every call that was invoked eventually
\* completes (resolves with its result).
C7_EveryCallCompletes ==
    \A c \in CallIds : (calls[c].pc # "idle") ~> (calls[c].pc = "done")

(* ---------------- C8 ---------------- *)

C9_EditingDomainByBuildMode ==
    \A c \in CallIds : ReachedAdapter(c) =>
        /\ debug => calls[c].editing_domain = Some("localhost")
        /\ ~debug => calls[c].editing_domain = Some("app.sparktype.org")

\* in a production build two calls with different site ids both passed
\* the production domain
C9_Witness ==
    /\ ~debug
    /\ \E c, d \in CallIds :
        /\ ReachedAdapter(c) /\ ReachedAdapter(d)
        /\ calls[c].op = "register" /\ calls[d].op = "authenticate"
        /\ calls[c].site_id # calls[d].site_id
        /\ calls[d].editing_domain = Some("app.sparktype.org")

(* ---------------- C10 ---------------- *)

\* C10: in a production build no authenticate_passkey or register_passkey
\* returns success = true; success = true is returned only in a
\* development build on macOS/iOS, where every authenticate_passkey that
\* returns does so with success = true, whatever siteId and authConfig.
C10_SuccessOnlyInDevelopment ==
    \A c \in CallIds :
        Returned(c, "authenticate") \/ Returned(c, "register") =>
            /\ ~debug => ~Res(c).success
            /\ Res(c).success => debug /\ platform \in {"macos", "ios"}
            /\ (/\ calls[c].op = "authenticate"
                /\ debug
                /\ platform \in {"macos", "ios"}) => Res(c).success

\* an authenticate given an authConfig that no register produced has
\* returned success
C10_Witness ==
    \E c \in CallIds :
        /\ Returned(c, "authenticate")
        /\ calls[c].auth_config = Some(ForeignConfig)
        /\ \A d \in CallIds : calls[d].op # "register"
        /\ Res(c).success

====
